---- MODULE Spec2Model ----
(***************************************************************************)
(* State-machine model of rx-dashboard's connection manager               *)
(* (src/src/websocket-service.js) and of the shared data stream its        *)
(* dashboard subscribes to.                                                *)
(*                                                                         *)
(* The service is a composition of rxjs operators around one              *)
(* WebSocketSubject.  The model spells out what that composition does:     *)
(*   - the browser sockets the subject creates (socks), each with its      *)
(*     readyState, whether it is the subject's current socket (cur) and    *)
(*     whether the data pipeline is still subscribed to its output (att);  *)
(*   - the subject's input queue (queueDone: socket$.complete() was called *)
(*     while no socket was open, so the queue replays a completion to the  *)
(*     next socket that opens);                                            *)
(*   - the retryWhen notifier (errIdx, retryPending, retryLeft);           *)
(*   - the shared stream and its subscribers (stream, subState, got);      *)
(*   - closeSubject (closedSig) and the heartbeat interval (hbAlive,       *)
(*     hbLeft);                                                            *)
(*   - the connection-status channel (status, statusLog).                  *)
(* Time is counted in units of one second: the retry delay is 1 unit and   *)
(* the heartbeat period 30 units.                                          *)
(***************************************************************************)
EXTENDS Integers, Sequences, FiniteSets, TLC

\* ------------------------------------------------------------------ bounds
NumSubs == 2          \* derived computations subscribing to getData()
MaxInputs == 3        \* inputs in a run: upstream messages, reconnect()
                      \* calls and faults inside derived computations
MaxItems == 3         \* elements in one upstream array
MaxWindowSnaps == 3   \* Snapshots arriving within one 5-minute window
MaxStamp == 6         \* alert batches that are told apart by their time
MaxSnapshots == 6     \* Snapshots reaching the display throttler in a run

\* ------------------------------------------------------- program constants
MaxRetries == 5       \* retryWhen: i >= 5 gives up
RetryDelay == 1       \* delay(1000)
HeartbeatPeriod == 30 \* interval(30000)
DebouncePeriod == 10  \* debounceTime(10000)
SamplePeriod == 1     \* interval(1000)

Subs == 1..NumSubs

\* Upstream frames by shape: not an array, an array of ticker objects,
\* an array with a null element.
MsgKinds == {"nonarray", "array", "badarray"}

\* Where a derived computation's own processing can throw: in the callback
\* given to subscribe(), or in a function given to one of its operators.
FaultKinds == {"callback", "operator"}

VARIABLES
  socks,        \* sequence of sockets that are not yet CLOSED
  queueDone,    \* the subject's input queue has been completed
  stream,       \* the source subscription of share(): "idle", "live", or how
                \* it ended: "completed", "exhausted", "faulted", "closed",
                \* "abandoned"
  subState,     \* per subscriber: "unsub" | "active" | "done" | "failed"
  got,          \* per subscriber: the Snapshots delivered to it
  errIdx,       \* index i of the retryWhen map
  retryPending, \* an error is waiting in delay(1000)
  retryLeft,    \* time left until the delayed error is released
  closedSig,    \* closeSubject has fired
  hbAlive,      \* the heartbeat interval is still subscribed
  hbLeft,       \* time left until the next heartbeat tick (0 once it stopped)
  status,       \* last value published on connectionStatus$
  statusLog,    \* the values published on connectionStatus$, in order, up to
                \* the first "connected"
  consec,       \* failures since the last successful open
  attempts,     \* WebSocket objects constructed so far
  reconnects,   \* manual reconnect() calls so far
  hbReconnects, \* reconnect() calls made by the heartbeat so far
  msgs,         \* upstream messages received so far
  lastMsg,      \* the shape of the latest upstream message ("none": none yet)
  faults,       \* faults inside derived computations so far
  raw,          \* normalizer: the upstream array given to processBinanceData
  cryptos,      \* normalizer: the record list of the Snapshot it returned
  normDone,     \* normalizer: processBinanceData has returned
  buffer,       \* price detector: what buffer() holds since the last window tick
  priceOut,     \* price detector: what priceAlerts$ emitted in the last step
                \* (<<>>: nothing, <<b>>: the batch b)
  allAlerts,    \* the accumulator of allAlerts$' scan
  alertOut,     \* what allAlerts$ emitted in the last step
  held,         \* volume detector: the Snapshot waiting in debounceTime
                \* (<<>>: none)
  dbLeft,       \* volume detector: time left until debounceTime releases it
  prev,         \* volume detector: acc.prev of the scan (<<>>: null)
  volOut,       \* volume detector: what volumeAlerts$ emitted in the last step
  lastVol,      \* per symbol, its volume in the latest checked Snapshot that
                \* carried it (0: in none so far)
  waiting,      \* time since the oldest Snapshot not yet followed by a check
                \* arrived, counted up to DebouncePeriod + 1
  hasValue,     \* display throttler: sample() holds a value not yet emitted
  lastValue,    \* display throttler: the value sample() holds (<<>>: none yet)
  sampleLeft,   \* display throttler: time left until the next sample tick
  uiOut,        \* display throttler: what uiData$ emitted in the last step
  sinceTick,    \* the Snapshots that arrived since the previous sample tick
  shown,        \* every Snapshot uiData$ has emitted, in order
  arrived,      \* Snapshots the throttler has received so far
  refreshes     \* refresh() calls so far

vars == <<socks, queueDone, stream, subState, got, errIdx, retryPending,
          retryLeft, closedSig, hbAlive, hbLeft, status, statusLog, consec,
          attempts, reconnects, hbReconnects, msgs, lastMsg, faults>>

normVars == <<raw, cryptos, normDone>>

priceVars == <<buffer, priceOut, allAlerts, alertOut>>

volVars == <<held, dbLeft, prev, volOut, lastVol, waiting>>

uiVars == <<hasValue, lastValue, sampleLeft, uiOut, sinceTick, shown, arrived>>

allVars == <<vars, normVars, priceVars, volVars, uiVars, refreshes>>

\* ------------------------------------------------------------ the sockets
\* A socket is live while its readyState is CONNECTING or OPEN.
Live(sk) == sk.rs \in {"connecting", "open"}

LiveCount == Cardinality({k \in DOMAIN socks : Live(socks[k])})

HasCur(ss) == \E k \in DOMAIN ss : ss[k].cur

Remove(ss, k) == [j \in 1..(Len(ss) - 1) |-> IF j < k THEN ss[j] ELSE ss[j + 1]]

\* WebSocketSubject._resetState: the subject forgets its socket and gets a
\* fresh input queue.
ResetState(ss) == [k \in DOMAIN ss |-> [ss[k] EXCEPT !.cur = FALSE]]

\* Subscribing the pipeline to socket$ (data$ = this.socket$.pipe(...)):
\* a socket is constructed only when the subject has none.
SubscribeSocket(ss) ==
  IF HasCur(ss)
    THEN [k \in DOMAIN ss |-> IF ss[k].cur THEN [ss[k] EXCEPT !.att = TRUE] ELSE ss[k]]
    ELSE Append(ss, [rs |-> "connecting", cur |-> TRUE, att |-> TRUE])

NewSockets(ss) == IF HasCur(ss) THEN 0 ELSE 1

\* The pipeline's subscription to socket$ ends (error, completion or
\* unsubscription): the subject closes its socket if that is still
\* CONNECTING or OPEN, and resets its state.
Teardown(ss) ==
  [k \in DOMAIN ss |->
     [rs  |-> IF ss[k].cur /\ Live(ss[k]) THEN "closing" ELSE ss[k].rs,
      cur |-> FALSE,
      att |-> FALSE]]

\* this.socket$.complete(): with an open socket the subject closes it and
\* resets; otherwise the completion is stored in the input queue.
SocketComplete(ss, qd) ==
  IF \E k \in DOMAIN ss : ss[k].cur /\ ss[k].rs = "open"
    THEN [socks |-> ResetState([k \in DOMAIN ss |->
                       IF ss[k].cur /\ ss[k].rs = "open"
                         THEN [ss[k] EXCEPT !.rs = "closing"] ELSE ss[k]]),
          queueDone |-> FALSE]
    ELSE [socks |-> ss, queueDone |-> TRUE]

\* A connect() that constructs a socket whatever the subject's state.
SocketConnectOpens(ss) ==
  Append(ss, [rs |-> "connecting", cur |-> TRUE, att |-> TRUE])

\* this.socket$.connect(): WebSocketSubject defines no connect method, so
\* the call raises a TypeError; no socket is constructed and the statement
\* after it in reconnect() is not reached.
SocketConnect(ss) == ss

\* A probe that reports the transport's state: no socket is live.
SocketSubjectClosedTransport == LiveCount = 0

\* this.socket$.closed: the Subject flag that only unsubscribe() sets; the
\* program never unsubscribes socket$ itself.
SocketSubjectClosed == FALSE

\* ------------------------------------------------------------ the pipeline
\* share(): the source is subscribed when there is no live source
\* subscription.
ShareConnects(st) == st # "live"

\* The give-up test off by one.
GiveUpLate(i) == i > MaxRetries

\* retryWhen's map: (error, i) => { if (i >= 5) throw error; ... }
GiveUp(i) == i >= MaxRetries

\* A filter that lets every message through.
IsArrayAll(m) == TRUE

\* filter((data) => Array.isArray(data))
IsArray(m) == m \in {"array", "badarray"}

\* processBinanceData throws on an element without fields (item.s of null).
ProcessThrows(m) == m = "badarray"

Constructed == \A s \in Subs : subState[s] # "unsub"

\* A fan-out that leaves out the last subscriber.
DeliverSkipsLast(g, snap) ==
  [s \in Subs |-> IF subState[s] = "active" /\ s # NumSubs THEN Append(g[s], snap) ELSE g[s]]

\* share(): its Subject hands each Snapshot to every current subscriber.
Deliver(g, snap) ==
  [s \in Subs |-> IF subState[s] = "active" THEN Append(g[s], snap) ELSE g[s]]

Completed(ss) == [s \in Subs |-> IF ss[s] = "active" THEN "done" ELSE ss[s]]

Inputs == msgs + reconnects + faults + refreshes

Recording(log) == \A i \in DOMAIN log : log[i] # "connected"

Publish(v) ==
  /\ status' = v
  /\ statusLog' = IF Recording(statusLog) THEN Append(statusLog, v) ELSE statusLog

NoPublish == UNCHANGED <<status, statusLog>>

\* ----------------------------------------------------------------- Init
\* The normalizer at rest.
NormIdle == raw = <<>> /\ cryptos = <<>> /\ normDone = FALSE

\* The connection manager before the dashboard subscribes.
BusIdle ==
  /\ socks = <<>>
  /\ queueDone = FALSE
  /\ stream = "idle"
  /\ subState = [s \in Subs |-> "unsub"]
  /\ got = [s \in Subs |-> <<>>]
  /\ errIdx = 0
  /\ retryPending = FALSE
  /\ retryLeft = 0
  /\ closedSig = FALSE
  /\ hbAlive = TRUE
  /\ hbLeft = HeartbeatPeriod
  /\ status = "none"
  /\ statusLog = <<>>
  /\ consec = 0
  /\ attempts = 0
  /\ reconnects = 0
  /\ hbReconnects = 0
  /\ msgs = 0
  /\ lastMsg = "none"
  /\ faults = 0
  /\ refreshes = 0

\* The display throttler when it is subscribed.
UiIdle ==
  /\ hasValue = FALSE
  /\ lastValue = <<>>
  /\ sampleLeft = SamplePeriod
  /\ uiOut = <<>>
  /\ sinceTick = <<>>
  /\ shown = <<>>
  /\ arrived = 0

\* The volume detector before any Snapshot.
VolIdle ==
  /\ held = <<>>
  /\ dbLeft = 0
  /\ prev = <<>>
  /\ volOut = <<>>
  /\ lastVol = [sym \in {<<"BTC">>, <<"ETH">>} |-> 0]
  /\ waiting = 0

\* The price detector and the alert list before any Snapshot.
PriceIdle == buffer = <<>> /\ priceOut = <<>> /\ allAlerts = <<>> /\ alertOut = <<>>

Init == BusIdle /\ NormIdle /\ PriceIdle /\ VolIdle /\ UiIdle

\* -------------------------------------------------------------- actions
\* A derived computation subscribes to getData() while the dashboard is
\* being constructed.
Subscribe(s) ==
  /\ subState[s] = "unsub"
  /\ subState' = [subState EXCEPT ![s] = "active"]
  /\ IF ShareConnects(stream)
       THEN /\ socks' = SubscribeSocket(socks)
            /\ attempts' = attempts + NewSockets(socks)
            /\ stream' = "live"
            /\ errIdx' = 0
       ELSE UNCHANGED <<socks, attempts, stream, errIdx>>
  /\ UNCHANGED <<queueDone, got, retryPending, retryLeft, closedSig, hbAlive,
                 hbLeft, status, statusLog, consec, reconnects, hbReconnects, msgs, lastMsg, faults>>

\* socket.onopen
SocketOpen(k) ==
  /\ Constructed
  /\ socks[k].rs = "connecting"
  /\ IF ~socks[k].cur
       THEN /\ socks' = ResetState([socks EXCEPT ![k].rs = "closing"])
            /\ queueDone' = FALSE
            /\ NoPublish
            /\ UNCHANGED consec
       ELSE /\ Publish("connected")
            /\ consec' = 0
            /\ queueDone' = FALSE
            /\ socks' = IF queueDone
                          THEN ResetState([socks EXCEPT ![k].rs = "closing"])
                          ELSE [socks EXCEPT ![k].rs = "open"]
  /\ UNCHANGED <<stream, subState, got, errIdx, retryPending, retryLeft,
                 closedSig, hbAlive, hbLeft, attempts, reconnects, hbReconnects, msgs, lastMsg, faults>>

\* The error reaches retryWhen's notifier and waits in delay(1000).
PipelineError(att) ==
  IF att
    THEN /\ retryPending' = TRUE
         /\ retryLeft' = RetryDelay
         /\ consec' = consec + 1
    ELSE UNCHANGED <<retryPending, retryLeft, consec>>

\* socket.onerror followed by socket.onclose (wasClean false): the
\* connection attempt failed or the open connection broke.
SocketFail(k) ==
  /\ Constructed
  /\ Live(socks[k])
  /\ socks' = Remove(Teardown(socks), k)
  /\ queueDone' = FALSE
  /\ Publish("disconnected")
  /\ PipelineError(socks[k].att)
  /\ UNCHANGED <<stream, subState, got, errIdx, closedSig, hbAlive, hbLeft,
                 attempts, reconnects, hbReconnects, msgs, lastMsg, faults>>

\* socket.onclose on socket k: the subject resets if k is its current socket,
\* and the pipeline's subscription ends if it is attached to k's output.
OnClose(ss, k) ==
  Remove(IF ss[k].att THEN Teardown(ss) ELSE IF ss[k].cur THEN ResetState(ss) ELSE ss, k)

\* socket.onclose with wasClean false and no error event.
SocketCloseUnclean(k) ==
  /\ Constructed
  /\ socks[k].rs \in {"open", "closing"}
  /\ socks' = OnClose(socks, k)
  /\ queueDone' = IF socks[k].cur \/ socks[k].att THEN FALSE ELSE queueDone
  /\ Publish("disconnected")
  /\ PipelineError(socks[k].att)
  /\ UNCHANGED <<stream, subState, got, errIdx, closedSig, hbAlive, hbLeft,
                 attempts, reconnects, hbReconnects, msgs, lastMsg, faults>>

\* socket.onclose with wasClean true: the output completes, and the
\* completion passes retryWhen, filter, takeUntil, map, catchError and share.
SocketCloseClean(k) ==
  /\ Constructed
  /\ socks[k].rs \in {"open", "closing"}
  /\ socks' = OnClose(socks, k)
  /\ queueDone' = IF socks[k].cur \/ socks[k].att THEN FALSE ELSE queueDone
  /\ Publish("disconnected")
  /\ IF socks[k].att
       THEN /\ stream' = "completed"
            /\ subState' = Completed(subState)
       ELSE UNCHANGED <<stream, subState>>
  /\ UNCHANGED <<got, errIdx, retryPending, retryLeft, closedSig, hbAlive,
                 hbLeft, consec, attempts, reconnects, hbReconnects, msgs, lastMsg, faults>>

\* A Snapshot: made by processBinanceData from upstream message number src,
\* or the empty one catchError substitutes.
DataSnapshot(n) == [kind |-> "data", src |-> n]

EmptySnapshot(n) == [kind |-> "empty", src |-> n]

\* The derived computations in F throw while they process a Snapshot: thrown
\* in the subscribe() callback the error is reported and the computation
\* stays subscribed; thrown in an operator function it ends the computation's
\* own subscription.  Either way it travels downstream of share(), away from
\* the catchError of data$.
AfterFault(ss, F, fk) ==
  [s \in Subs |-> IF s \in F /\ fk = "operator" THEN "failed" ELSE ss[s]]

\* share() unsubscribes its source when its last subscriber has gone.
RefCountZero(ss) == \A t \in Subs : ss[t] # "active"

\* socket.onmessage, through filter, takeUntil, map, catchError and share;
\* F is the set of derived computations that throw on this Snapshot.
\* A message on a socket whose output has no subscriber left is dropped
\* without any effect and is not a step.
Message(k, m, F, fk) ==
  /\ Constructed
  /\ socks[k].rs \in {"open", "closing"}
  /\ socks[k].att
  /\ Inputs < MaxInputs
  /\ msgs' = msgs + 1
  /\ lastMsg' = m
  /\ IF F = {}
       THEN fk = "callback" /\ UNCHANGED faults
       ELSE /\ Inputs + Cardinality(F) < MaxInputs
            /\ IsArray(m) /\ ~ProcessThrows(m)
            /\ \A s \in F : subState[s] = "active"
            /\ faults' = faults + Cardinality(F)
  /\ IF ~IsArray(m)
       THEN /\ NoPublish
            /\ UNCHANGED <<socks, queueDone, stream, subState, got>>
       ELSE IF ProcessThrows(m)
         THEN /\ Publish("error")
              /\ socks' = Teardown(socks)
              /\ queueDone' = FALSE
              /\ got' = Deliver(got, EmptySnapshot(msgs + 1))
              /\ stream' = "faulted"
              /\ subState' = Completed(subState)
         ELSE /\ NoPublish
              /\ got' = Deliver(got, DataSnapshot(msgs + 1))
              /\ IF F = {}
                   THEN UNCHANGED <<socks, queueDone, stream, subState>>
                   ELSE /\ subState' = AfterFault(subState, F, fk)
                        /\ IF RefCountZero(subState')
                             THEN /\ stream' = "abandoned"
                                  /\ socks' = Teardown(socks)
                                  /\ queueDone' = FALSE
                             ELSE UNCHANGED <<socks, queueDone, stream>>
  /\ UNCHANGED <<errIdx, retryPending, retryLeft, closedSig, hbAlive, hbLeft,
                 consec, attempts, reconnects, hbReconnects>>

\* The delayed error leaves delay(1000) and reaches retryWhen's map.
RetryFire ==
  /\ Constructed
  /\ retryPending
  /\ retryLeft = 0
  /\ retryPending' = FALSE
  /\ IF GiveUp(errIdx)
       THEN /\ Publish("error")
            /\ got' = Deliver(got, EmptySnapshot(0))
            /\ stream' = "exhausted"
            /\ subState' = Completed(subState)
            /\ UNCHANGED <<socks, errIdx, attempts>>
       ELSE /\ Publish("reconnecting")
            /\ errIdx' = errIdx + 1
            /\ socks' = SubscribeSocket(socks)
            /\ attempts' = attempts + NewSockets(socks)
            /\ UNCHANGED <<got, stream, subState>>
  /\ UNCHANGED <<queueDone, retryLeft, closedSig, hbAlive, hbLeft, consec,
                 reconnects, hbReconnects, msgs, lastMsg, faults>>

\* One time unit passes; no timer is overdue.
Tick ==
  /\ Constructed
  /\ hbAlive \/ retryPending
  /\ hbAlive => hbLeft > 0
  /\ retryPending => retryLeft > 0
  /\ hbLeft' = IF hbAlive THEN hbLeft - 1 ELSE hbLeft
  /\ retryLeft' = IF retryPending THEN retryLeft - 1 ELSE retryLeft
  /\ UNCHANGED <<socks, queueDone, stream, subState, got, errIdx,
                 retryPending, closedSig, hbAlive, status, statusLog, consec,
                 attempts, reconnects, hbReconnects, msgs, lastMsg, faults>>

\* reconnect(): socket$.complete(), then socket$.connect() raises, so
\* "connecting" is not published.
ReconnectBody ==
  /\ socks' = SocketConnect(SocketComplete(socks, queueDone).socks)
  /\ attempts' = attempts + (Len(socks') - Len(socks))
  /\ queueDone' = SocketComplete(socks, queueDone).queueDone
  /\ NoPublish

\* The connection-status element is clicked.
Reconnect ==
  /\ Constructed
  /\ Inputs < MaxInputs
  /\ ReconnectBody
  /\ reconnects' = reconnects + 1
  /\ UNCHANGED <<hbReconnects, stream, subState, got, errIdx, retryPending, retryLeft,
                 closedSig, hbAlive, hbLeft, consec, msgs, lastMsg, faults>>

\* interval(30000) emits: the switchMap probes socket$.closed; the error it
\* throws is caught by catchError, which calls reconnect() and replaces the
\* interval by of(null), so the heartbeat ends with that tick.
HeartbeatTick ==
  /\ Constructed
  /\ hbAlive
  /\ hbLeft = 0
  /\ IF SocketSubjectClosed
       THEN /\ ReconnectBody
            /\ hbReconnects' = hbReconnects + 1
            /\ hbAlive' = FALSE
            /\ UNCHANGED hbLeft
       ELSE /\ hbLeft' = HeartbeatPeriod
            /\ UNCHANGED <<socks, attempts, queueDone, hbReconnects, status,
                           statusLog, hbAlive>>
  /\ UNCHANGED <<reconnects, stream, subState, got, errIdx, retryPending,
                 retryLeft, closedSig, consec, msgs, lastMsg, faults>>

\* A close() that leaves the retry delay running.
TakeUntilKeeps(pending) == pending

\* takeUntil(this.closeSubject) on data$: the pipeline is unsubscribed, which
\* cancels a pending retry delay.
TakeUntilCancels(pending) == FALSE

\* close(): closeSubject.next(), closeSubject.complete(), socket$.complete().
Close ==
  /\ Constructed
  /\ ~closedSig
  /\ closedSig' = TRUE
  /\ hbAlive' = FALSE
  /\ IF stream = "live"
       THEN /\ stream' = "closed"
            /\ subState' = Completed(subState)
            /\ retryPending' = TakeUntilCancels(retryPending)
            /\ socks' = SocketComplete(Teardown(socks), FALSE).socks
       ELSE /\ socks' = SocketComplete(socks, queueDone).socks
            /\ UNCHANGED <<stream, subState, retryPending>>
  /\ hbLeft' = 0
  /\ queueDone' = TRUE
  /\ NoPublish
  /\ UNCHANGED <<got, errIdx, retryLeft, consec, attempts,
                 reconnects, hbReconnects, msgs, lastMsg, faults>>

\* The connection manager's steps leave the separately checked components
\* alone.
\* The observers of refreshSubject with a handler that reconnects.
RefreshObserversReconnect == {"reconnect"}

\* The observers of refreshSubject: nothing subscribes to it.
RefreshObservers == {}

\* refresh(): refreshSubject.next() runs the handler of every observer.
\* No channel of the dashboard emits in this step.
Refresh ==
  /\ Inputs < MaxInputs
  /\ refreshes' = refreshes + 1
  /\ IF "reconnect" \in RefreshObservers
       THEN ReconnectBody
       ELSE UNCHANGED <<socks, attempts, queueDone, status, statusLog>>
  /\ priceOut' = <<>> /\ alertOut' = <<>> /\ volOut' = <<>> /\ uiOut' = <<>>
  /\ UNCHANGED <<reconnects, hbReconnects, stream, subState, got, errIdx,
                 retryPending, retryLeft, closedSig, hbAlive, hbLeft, consec,
                 msgs, lastMsg, faults, normVars, buffer, allAlerts, held,
                 dbLeft, prev, lastVol, waiting, hasValue, lastValue,
                 sampleLeft, sinceTick, shown, arrived>>

Others == UNCHANGED <<normVars, priceVars, volVars, uiVars, refreshes>>

Next ==
  \/ \E s \in Subs : Subscribe(s) /\ Others
  \/ \E k \in DOMAIN socks : SocketOpen(k) /\ Others
  \/ \E k \in DOMAIN socks : SocketFail(k) /\ Others
  \/ \E k \in DOMAIN socks : SocketCloseUnclean(k) /\ Others
  \/ \E k \in DOMAIN socks : SocketCloseClean(k) /\ Others
  \/ \E k \in DOMAIN socks, m \in MsgKinds, F \in SUBSET Subs, fk \in FaultKinds :
       Message(k, m, F, fk) /\ Others
  \/ RetryFire /\ Others
  \/ Tick /\ Others
  \/ HeartbeatTick /\ Others
  \/ Reconnect /\ Others
  \/ Close /\ Others

Spec == Init /\ [][Next]_allVars

\* The connection manager with refresh() calls in place of manual
\* reconnects and of faults inside derived computations.
NextRefresh ==
  \/ \E s \in Subs : Subscribe(s) /\ Others
  \/ \E k \in DOMAIN socks : SocketOpen(k) /\ Others
  \/ \E k \in DOMAIN socks : SocketFail(k) /\ Others
  \/ \E k \in DOMAIN socks : SocketCloseUnclean(k) /\ Others
  \/ \E k \in DOMAIN socks : SocketCloseClean(k) /\ Others
  \/ \E k \in DOMAIN socks, m \in MsgKinds : Message(k, m, {}, "callback") /\ Others
  \/ RetryFire /\ Others
  \/ Tick /\ Others
  \/ HeartbeatTick /\ Others
  \/ Close /\ Others
  \/ Constructed /\ Refresh

SpecRefresh == Init /\ [][NextRefresh]_allVars

TypeOK ==
  /\ \A k \in DOMAIN socks :
        /\ socks[k].rs \in {"connecting", "open", "closing"}
        /\ socks[k].cur \in BOOLEAN
        /\ socks[k].att \in BOOLEAN
  /\ queueDone \in BOOLEAN
  /\ stream \in {"idle", "live", "completed", "exhausted", "faulted", "closed",
                 "abandoned"}
  /\ subState \in [Subs -> {"unsub", "active", "done", "failed"}]
  /\ errIdx \in 0..MaxRetries
  /\ retryLeft \in 0..RetryDelay
  /\ hbLeft \in 0..HeartbeatPeriod
  /\ status \in {"none", "connecting", "connected", "reconnecting", "disconnected", "error"}


\* ---------------------------------------------------------- the normalizer
\* processBinanceData as a function of one upstream array.  A symbol is the
\* sequence of its parts ("BTCUSDT" is <<"BTC", "USDT">>), a numeric field the
\* string the upstream sends.
Tickers == {<<"BTC", "USDT">>, <<"ETH", "USDT">>, <<"SOL", "USDT">>, <<"ADA", "USDT">>}

\* Symbols the upstream sends: the four above, one with the same quote
\* currency that is not listed, and a listed base with another quote currency.
UpstreamSymbols == Tickers \cup {<<"DOGE", "USDT">>, <<"BTC", "EUR">>}

NumStr == {"0", "1", "2", "1000"}

\* The last price (c) and the volume (v) an item carries.
Quotes == {[c |-> "1", v |-> "0"], [c |-> "2", v |-> "1"], [c |-> "1", v |-> "1000"]}

Items == {[s |-> sym, c |-> q.c, v |-> q.v] : sym \in UpstreamSymbols, q \in Quotes}

\* parseFloat on the numeric strings of the model.
ParseFloat(str) ==
  CASE str = "0" -> 0 [] str = "1" -> 1 [] str = "2" -> 2 [] str = "1000" -> 1000

\* A result of floating-point arithmetic: a finite number or -Infinity.
Num(n) == <<"number", n>>

NegInfinity == <<"-Infinity", 0>>

\* The integer part of e^(10 k) for k = 0, 1, 2.
ExpTen == <<1, 22026, 485165195>>

\* Math.ceil(Math.log(x) / 10) for an integer x >= 0: Math.log(0) is
\* -Infinity; otherwise the least k with x <= e^(10 k).
CeilLogOverTen(x) ==
  IF x = 0 THEN NegInfinity
  ELSE Num(CHOOSE k \in 0..2 : x <= ExpTen[k + 1] /\ (k = 0 \/ x > ExpTen[k]))

\* Math.min(10, y)
MathMinTen(y) ==
  IF y = NegInfinity THEN NegInfinity ELSE Num(IF y[2] < 10 THEN y[2] ELSE 10)

\* String.prototype.replace(tok, ""): the first occurrence of tok is removed.
RECURSIVE ReplaceFirst(_, _)
ReplaceFirst(sym, tok) ==
  IF sym = <<>> THEN <<>>
  ELSE IF Head(sym) = tok THEN Tail(sym)
  ELSE <<Head(sym)>> \o ReplaceFirst(Tail(sym), tok)

\* A filter that keeps every item.
IncludesAny(item) == TRUE

\* tickers.includes(item.s)
Includes(item) == item.s \in Tickers

\* The record made from an item; priceChange (parseFloat(item.P)) is left out.
ToRecord(item) ==
  [symbol |-> ReplaceFirst(item.s, "USDT"),
   price |-> ParseFloat(item.c),
   volume |-> ParseFloat(item.v),
   volumeScore |-> MathMinTen(CeilLogOverTen(ParseFloat(item.v)))]

\* data.filter(...).map(...); the Snapshot's timestamp (Date.now()) is left out.
ProcessBinanceData(data) ==
  LET kept == SelectSeq(data, Includes)
  IN  [cryptos |-> [i \in DOMAIN kept |-> ToRecord(kept[i])]]

InitNorm ==
  /\ BusIdle
  /\ PriceIdle
  /\ VolIdle
  /\ UiIdle
  /\ raw \in UNION {[1..n -> Items] : n \in 0..MaxItems}
  /\ cryptos = <<>>
  /\ normDone = FALSE

Normalize ==
  /\ ~normDone
  /\ cryptos' = ProcessBinanceData(raw).cryptos
  /\ normDone' = TRUE
  /\ UNCHANGED <<raw, vars, refreshes, priceVars, volVars, uiVars>>

NextNorm == Normalize

SpecNorm == InitNorm /\ [][NextNorm]_allVars

\* ------------------------------------------------------ the price detector
\* priceAlerts$ and allAlerts$ of Dashboard.setupObservables, fed with the
\* Snapshots of the shared stream.  Prices are counted in tenths (1005 is
\* 100.5) and are positive.
Symbols == {<<"BTC">>, <<"ETH">>}

Prices == {1000, 1005, 1012}

AlertCap == 5         \* slice(0, 5)

\* The record lists a Snapshot can carry: each symbol at most once, in the
\* order of the allow-list.
RECURSIVE Flatten(_)
Flatten(ss) == IF ss = <<>> THEN <<>> ELSE Head(ss) \o Flatten(Tail(ss))

CryptoLists ==
  { Flatten(<< IF b = 0 THEN <<>> ELSE <<[symbol |-> <<"BTC">>, price |-> b]>>,
               IF e = 0 THEN <<>> ELSE <<[symbol |-> <<"ETH">>, price |-> e]>> >>)
      : b \in Prices \cup {0}, e \in Prices \cup {0} }

\* A JavaScript array as a value of its own: it has elements, and none of
\* the fields of the objects in it.
ArrayValue(elems) == [elems |-> elems]

\* Property access x.f: <<v>> for the value v, <<>> for undefined (x has no
\* such property).
Prop(x, f) == IF f \in DOMAIN x THEN <<x[f]>> ELSE <<>>

Defined(v) == v # <<>>

Abs(n) == IF n < 0 THEN -n ELSE n

\* n / d rounded to the nearest integer, halves away from zero (d > 0).
RoundDiv(n, d) ==
  IF n >= 0 THEN (2 * n + d) \div (2 * d) ELSE -((2 * (-n) + d) \div (2 * d))

\* cryptos.flatMap((crypto) => ({ ...crypto })): one array holding a copy of
\* every record; map() emits that array as a single value.
FlatMapCopy(cs) == ArrayValue(cs)

\* The keys of bySymbol in insertion order.
RECURSIVE GroupKeys(_)
GroupKeys(buf) ==
  IF buf = <<>> THEN <<>>
  ELSE LET before == GroupKeys(SubSeq(buf, 1, Len(buf) - 1))
           key == Prop(buf[Len(buf)], "symbol")
       IN  IF \E i \in DOMAIN before : before[i] = key THEN before
           ELSE Append(before, key)

GroupOf(buf, key) == SelectSeq(buf, LAMBDA item : Prop(item, "symbol") = key)

\* The alert for one entry of bySymbol, as a list of none or one.  pctChange
\* is kept in hundredths of a percent, as toFixed(2) prints it; arithmetic on
\* undefined gives NaN, and NaN >= 1 is false.
AlertOf(key, items) ==
  IF Len(items) < 2 THEN <<>>
  ELSE LET first == Prop(items[1], "price")
           last == Prop(items[Len(items)], "price")
       IN  IF /\ Defined(first) /\ Defined(last)
              /\ Abs(last[1] - first[1]) * 100 >= first[1]
             THEN <<[symbol |-> key,
                     pctChange |-> RoundDiv((last[1] - first[1]) * 10000, first[1]),
                     isUp |-> last[1] > first[1]]>>
             ELSE <<>>

\* The map after buffer/filter, and the final alerts.flat().
PriceAlerts(buf) ==
  LET keys == GroupKeys(buf)
  IN  Flatten([i \in DOMAIN keys |-> AlertOf(keys[i], GroupOf(buf, keys[i]))])

\* A slice that keeps the end of the list.
SliceEnd(list, n) ==
  SubSeq(list, IF Len(list) < n THEN 1 ELSE Len(list) - n + 1, Len(list))

\* list.slice(0, n)
Slice(list, n) == SubSeq(list, 1, IF Len(list) < n THEN Len(list) ELSE n)

\* allAlerts$: scan((all, new) => [...new, ...all].slice(0, 5), []); scan
\* emits its accumulator for every batch it receives.
AggregateAs(type, batch) ==
  /\ allAlerts' = Slice([i \in DOMAIN batch |-> [type |-> type, of |-> batch[i]]]
                          \o allAlerts, AlertCap)
  /\ alertOut' = <<allAlerts'>>

Aggregate(batch) == AggregateAs("price", batch)

\* close(): closeSubject.next() makes takeUntil(this.closeSubject) complete
\* data$, and share() passes the completion on to every derived computation.
DataCompletes ==
  /\ ~closedSig
  /\ closedSig' = TRUE
  /\ UNCHANGED <<socks, queueDone, stream, subState, got, errIdx, retryPending,
                 retryLeft, hbAlive, hbLeft, status, statusLog, consec,
                 attempts, reconnects, hbReconnects, msgs, lastMsg, faults,
                 refreshes, normVars, uiVars>>

InitPrice == BusIdle /\ NormIdle /\ PriceIdle /\ VolIdle /\ UiIdle

\* The shared stream delivers a Snapshot to priceAlerts$.
PriceSnapshot(cs) ==
  /\ ~closedSig
  /\ Len(buffer) < MaxWindowSnaps
  /\ buffer' = Append(buffer, FlatMapCopy(cs))
  /\ priceOut' = <<>>
  /\ alertOut' = <<>>
  /\ UNCHANGED <<allAlerts, vars, refreshes, normVars, volVars, uiVars>>

\* interval(5 * 60 * 1000) fires: buffer() emits what it holds and starts
\* anew; filter passes a buffer that is not empty.
WindowTick ==
  /\ ~closedSig
  /\ buffer' = <<>>
  /\ IF Len(buffer) > 0
       THEN /\ priceOut' = <<PriceAlerts(buffer)>>
            /\ Aggregate(PriceAlerts(buffer))
       ELSE /\ priceOut' = <<>>
            /\ alertOut' = <<>>
            /\ UNCHANGED allAlerts
  /\ UNCHANGED <<vars, refreshes, normVars, volVars, uiVars>>

\* destroy() -> close(): data$ completes; buffer() emits what it holds and
\* completes, and a buffer that is not empty passes the filter as at a window
\* boundary.
PriceComplete ==
  /\ DataCompletes
  /\ buffer' = <<>>
  /\ IF Len(buffer) > 0
       THEN /\ priceOut' = <<PriceAlerts(buffer)>>
            /\ Aggregate(PriceAlerts(buffer))
       ELSE /\ priceOut' = <<>>
            /\ alertOut' = <<>>
            /\ UNCHANGED allAlerts
  /\ UNCHANGED volVars

NextPrice ==
  \/ \E cs \in CryptoLists : PriceSnapshot(cs)
  \/ WindowTick
  \/ PriceComplete
  \/ Refresh

SpecPrice == InitPrice /\ [][NextPrice]_allVars

\* ----------------------------------------------------- the volume detector
\* volumeAlerts$ of Dashboard.setupObservables, fed with the Snapshots of the
\* shared stream.  Volumes are positive.
Volumes == {1000, 1150, 1200, 1250}

VolumeLists ==
  { Flatten(<< IF b = 0 THEN <<>> ELSE <<[symbol |-> <<"BTC">>, volume |-> b]>>,
               IF e = 0 THEN <<>> ELSE <<[symbol |-> <<"ETH">>, volume |-> e]>> >>)
      : b \in Volumes \cup {0}, e \in Volumes \cup {0} }

\* acc.prev.find((p) => p.symbol === current.symbol): <<p>>, or <<>> for
\* undefined.
Find(list, sym) ==
  LET hits == SelectSeq(list, LAMBDA p : p.symbol = sym)
  IN  IF hits = <<>> THEN <<>> ELSE <<hits[1]>>

\* The alert for one record of the current Snapshot, as a list of none or
\* one: (current.volume - prev.volume) / prev.volume > 0.2, and the increase
\* in percent as toFixed(0) prints it.
VolumeAlertOf(before, current) ==
  LET p == Find(before, current.symbol)
  IN  IF p = <<>> THEN <<>>
      ELSE IF (current.volume - p[1].volume) * 5 > p[1].volume
        THEN <<[symbol |-> current.symbol,
                volumeIncrease |->
                  RoundDiv((current.volume - p[1].volume) * 100, p[1].volume)]>>
        ELSE <<>>

\* The scan's reducer: the alerts for data given the accumulator's prev.
VolumeAlerts(before, data) ==
  IF before = <<>> THEN <<>>
  ELSE Flatten([i \in DOMAIN data |-> VolumeAlertOf(before[1], data[i])])

Recorded(lv, data) ==
  [sym \in DOMAIN lv |->
     IF Find(data, sym) = <<>> THEN lv[sym] ELSE Find(data, sym)[1].volume]

InitVol == BusIdle /\ NormIdle /\ PriceIdle /\ VolIdle /\ UiIdle

\* The shared stream delivers a Snapshot to volumeAlerts$: debounceTime
\* replaces the value it holds and restarts its timer.
VolSnapshot(cs) ==
  /\ ~closedSig
  /\ held' = <<cs>>
  /\ dbLeft' = DebouncePeriod
  /\ waiting' = IF held = <<>> THEN 0 ELSE waiting
  /\ volOut' = <<>>
  /\ UNCHANGED <<prev, lastVol, vars, refreshes, normVars, priceVars, uiVars>>

\* One time unit passes while a Snapshot is held; the timer is not overdue.
VolTick ==
  /\ ~closedSig
  /\ held # <<>>
  /\ dbLeft > 0
  /\ dbLeft' = dbLeft - 1
  /\ waiting' = IF waiting > DebouncePeriod THEN waiting ELSE waiting + 1
  /\ volOut' = <<>>
  /\ UNCHANGED <<held, prev, lastVol, vars, refreshes, normVars, priceVars, uiVars>>

\* debounceTime releases the held Snapshot to the scan; filter and map pass
\* on a list of alerts that is not empty.
VolCheck ==
  /\ ~closedSig
  /\ held # <<>>
  /\ dbLeft = 0
  /\ held' = <<>>
  /\ waiting' = 0
  /\ prev' = <<held[1]>>
  /\ volOut' = IF VolumeAlerts(prev, held[1]) = <<>> THEN <<>>
                ELSE <<VolumeAlerts(prev, held[1])>>
  /\ lastVol' = Recorded(lastVol, held[1])
  /\ UNCHANGED <<dbLeft, vars, refreshes, normVars, priceVars, uiVars>>

\* destroy() -> close(): data$ completes; debounceTime emits the Snapshot it
\* holds to the scan, whatever is left of its wait, and completes.
VolComplete ==
  /\ DataCompletes
  /\ held' = <<>>
  /\ dbLeft' = 0
  /\ waiting' = 0
  /\ IF held # <<>>
       THEN /\ prev' = <<held[1]>>
            /\ volOut' = IF VolumeAlerts(prev, held[1]) = <<>> THEN <<>>
                          ELSE <<VolumeAlerts(prev, held[1])>>
            /\ lastVol' = Recorded(lastVol, held[1])
       ELSE /\ volOut' = <<>>
            /\ UNCHANGED <<prev, lastVol>>
  /\ UNCHANGED priceVars

NextVol ==
  \/ \E cs \in VolumeLists : VolSnapshot(cs)
  \/ VolTick
  \/ VolCheck
  \/ VolComplete
  \/ Refresh

SpecVol == InitVol /\ [][NextVol]_allVars

\* ---------------------------------------------------------- the alert list
\* allAlerts$ as a function of the batches merge() hands to its scan.  An
\* alert carries the time it was made at (timestamp: Date.now()); the alerts
\* of one batch share it and a later batch has a later one.
Now == IF allAlerts = <<>> THEN 1 ELSE allAlerts[1].of.timestamp + 1

\* What priceAlerts$ can hand over: the empty batch or one alert.
PriceBatches(t) ==
  { <<>>,
    <<[symbol |-> <<"BTC">>, pctChange |-> 120, isUp |-> TRUE, timestamp |-> t]>> }

\* What volumeAlerts$ can hand over: one or two alerts (its filter drops the
\* empty list).
VolumeBatches(t) ==
  { <<[symbol |-> <<"BTC">>, volumeIncrease |-> 25, timestamp |-> t]>>,
    <<[symbol |-> <<"BTC">>, volumeIncrease |-> 25, timestamp |-> t],
      [symbol |-> <<"ETH">>, volumeIncrease |-> 25, timestamp |-> t]>> }

InitAlerts == BusIdle /\ NormIdle /\ PriceIdle /\ VolIdle /\ UiIdle

\* priceAlerts$ emits a batch into merge().
PriceBatch(batch) ==
  /\ Now <= MaxStamp
  /\ priceOut' = <<batch>>
  /\ volOut' = <<>>
  /\ AggregateAs("price", batch)
  /\ UNCHANGED <<buffer, held, dbLeft, prev, lastVol, waiting, vars, refreshes, normVars, uiVars>>

\* volumeAlerts$ emits a batch into merge().
VolumeBatch(batch) ==
  /\ Now <= MaxStamp
  /\ volOut' = <<batch>>
  /\ priceOut' = <<>>
  /\ AggregateAs("volume", batch)
  /\ UNCHANGED <<buffer, held, dbLeft, prev, lastVol, waiting, vars, refreshes, normVars, uiVars>>

NextAlerts ==
  \/ \E batch \in PriceBatches(Now) : PriceBatch(batch)
  \/ \E batch \in VolumeBatches(Now) : VolumeBatch(batch)
  \/ Refresh

SpecAlerts == InitAlerts /\ [][NextAlerts]_allVars

\* --------------------------------------------------- the display throttler
\* uiData$ = data$.pipe(sample(interval(1000))), fed with the Snapshots of
\* the shared stream; a Snapshot is told apart by its number of arrival.

\* A sample() that goes on holding the value it has emitted.
HoldsAfterEmit(hv) == hv

\* sample(): the notifier's tick emits the held value once; hasValue is
\* cleared with the emission.
ClearedAfterEmit(hv) == FALSE

InitUi == BusIdle /\ NormIdle /\ PriceIdle /\ VolIdle /\ UiIdle

\* The shared stream delivers a Snapshot to sample().
UiSnapshot ==
  /\ arrived < MaxSnapshots
  /\ arrived' = arrived + 1
  /\ hasValue' = TRUE
  /\ lastValue' = <<DataSnapshot(arrived + 1)>>
  /\ sinceTick' = Append(sinceTick, DataSnapshot(arrived + 1))
  /\ uiOut' = <<>>
  /\ UNCHANGED <<sampleLeft, shown, vars, refreshes, normVars, priceVars, volVars>>

\* One time unit passes; the sample tick is not overdue.
UiTick ==
  /\ sampleLeft > 0
  /\ sampleLeft' = sampleLeft - 1
  /\ uiOut' = <<>>
  /\ UNCHANGED <<hasValue, lastValue, sinceTick, shown, arrived, vars, refreshes, normVars,
                 priceVars, volVars>>

\* interval(1000) emits.
SampleTick ==
  /\ sampleLeft = 0
  /\ sampleLeft' = SamplePeriod
  /\ uiOut' = IF hasValue THEN lastValue ELSE <<>>
  /\ shown' = shown \o uiOut'
  /\ hasValue' = ClearedAfterEmit(hasValue)
  /\ sinceTick' = <<>>
  /\ UNCHANGED <<lastValue, arrived, vars, refreshes, normVars, priceVars, volVars>>

NextUi ==
  \/ UiSnapshot
  \/ UiTick
  \/ SampleTick
  \/ Refresh

SpecUi == InitUi /\ [][NextUi]_allVars

\* ------------------------------------------------------------------ claims
ManualReconnectStep == reconnects' = reconnects + 1

\* C1 (as stated): once 5 consecutive connection failures have occurred the
\* manager has stopped retrying, so no connection attempt is live.
C1_FifthFailureStops == consec >= MaxRetries => LiveCount = 0

\* C1 (amended): at most 6 consecutive failures occur, and once the 6th has
\* occurred (the initial attempt and 5 retries all failed) no connection
\* attempt is live, and unless close() cancelled the delay the failure is
\* either still waiting in the 1-unit delay or 'error' is published.
C1_SixthFailureStops ==
  /\ consec <= MaxRetries + 1
  /\ consec = MaxRetries + 1 =>
       /\ LiveCount = 0
       /\ retryPending \/ closedSig \/ (status = "error" /\ stream = "exhausted")

C1_Witness == consec = MaxRetries + 1 /\ status = "error" /\ stream = "exhausted"

\* C2: once 'error' has been published after exhausted retries, no step
\* constructs a socket and the heartbeat never invokes reconnect().
C2_ErrorIsTerminal ==
  [][stream = "exhausted" => attempts' = attempts /\ hbReconnects' = hbReconnects]_vars

C2_Witness ==
  /\ stream = "exhausted"
  /\ status = "error"
  /\ reconnects = 0
  /\ ~closedSig
  /\ hbAlive
  /\ hbLeft = 0

\* C3: the retry counter counts consecutive failures only, so 'error' is
\* published by the retry policy only after the full number of retries has
\* failed since the last successful open.
C3_CounterResetsOnOpen == stream = "exhausted" => consec >= MaxRetries

\* C4: while fewer than 5 consecutive failures have occurred (and neither
\* reconnect() nor close() was called), the published states up to the first
\* 'connected' are connecting, (disconnected, reconnecting)*, connected.
C4_Step(a, b) ==
  \/ a \in {"connecting", "reconnecting"} /\ b \in {"disconnected", "connected"}
  \/ a = "disconnected" /\ b = "reconnecting"

C4_StateSequence ==
  ( /\ consec < MaxRetries
    /\ reconnects = 0
    /\ ~closedSig
    /\ statusLog # <<>>
    /\ \A i \in 1..(Len(statusLog) - 1) : statusLog[i] # "connected" )
  => /\ statusLog[1] = "connecting"
     /\ \A i \in 1..(Len(statusLog) - 1) : C4_Step(statusLog[i], statusLog[i + 1])

\* C5: at most one live upstream connection exists in every reachable state.
C5_OneLiveConnection == LiveCount <= 1

C5_Witness ==
  /\ LiveCount = 1
  /\ \A s \in Subs : subState[s] = "active"
  /\ errIdx > 0
  /\ reconnects > 0
  /\ queueDone

\* C6: after close(), no Snapshot is delivered, the heartbeat makes no
\* probe, no retry is pending and no socket is constructed.
C6_CloseStopsEverything ==
  [][/\ closedSig' => ~hbAlive' /\ ~retryPending'
     /\ closedSig => got' = got /\ attempts' = attempts /\ ~HeartbeatTick]_vars

C6_Witness ==
  /\ closedSig
  /\ retryLeft = RetryDelay
  /\ ~retryPending
  /\ Len(got[1]) > 0
  /\ socks = <<>>

\* C7: every reconnect() call before close(), also one that directly
\* follows another, leaves exactly one connection attempt in progress.
C7_ReconnectOneAttempt ==
  [][ManualReconnectStep /\ ~closedSig => LiveCount' = 1]_vars

\* C8: before close() is called the shared Snapshot sequence never ends for
\* a subscriber.
C8_NeverCompletes == ~closedSig => \A s \in Subs : subState[s] # "done"

\* C9: from the terminal 'error' state a manual reconnect() starts a new
\* connection attempt whose Snapshots the already-subscribed derived
\* computations will receive.
C9_ErrorRecoverable ==
  [][ManualReconnectStep /\ stream = "exhausted" /\ ~closedSig =>
       LiveCount' = 1 /\ \A s \in Subs : subState'[s] = "active"]_vars

\* C10: at every heartbeat tick before close() at which the transport is
\* closed (every socket constructed so far has reached CLOSED), reconnect()
\* is invoked.
C10_HeartbeatReconnects ==
  [][HeartbeatTick /\ socks = <<>> => hbReconnects' = hbReconnects + 1]_vars

\* C11: whenever an open connection is lost before close() and fewer than 5
\* consecutive failures have occurred, by an error or by a plain close,
\* 'disconnected' is published and a retry is scheduled after the 1-unit
\* delay.
C11_LostConnectionRetried ==
  [][( /\ \E k \in DOMAIN socks : socks[k].rs = "open" /\ socks[k].att
       /\ Len(socks') < Len(socks)
       /\ LiveCount' = 0
       /\ ~closedSig
       /\ consec < MaxRetries )
     => status' = "disconnected" /\ retryPending' /\ retryLeft' = RetryDelay]_vars

IsPrefix(a, b) == Len(a) <= Len(b) /\ \A i \in DOMAIN a : a[i] = b[i]

\* C12: all derived computations observe the same Snapshots in the order the
\* normalizer produced them: two computations that are both still subscribed
\* (or both ended with the stream) have received equal sequences, one that
\* ended by its own fault has a prefix of the others', and in every sequence
\* the Snapshots made from upstream messages appear in arrival order, also
\* when timer ticks fall between them.
C12_SameSequence ==
  \A s, t \in Subs :
    /\ (subState[s] # "failed" /\ subState[t] # "failed") => got[s] = got[t]
    /\ IsPrefix(got[s], got[t]) \/ IsPrefix(got[t], got[s])
    /\ \A i, j \in DOMAIN got[s] :
         (i < j /\ got[s][i].kind = "data" /\ got[s][j].kind = "data")
           => got[s][i].src < got[s][j].src

C12_Witness ==
  /\ \A s \in Subs : Len(got[s]) = 2 /\ got[s][2].kind = "data"
  /\ hbLeft < HeartbeatPeriod
  /\ errIdx > 0

\* C13: a fault inside one derived computation is converted to an empty
\* Snapshot at the bus: in the step in which it happens an empty Snapshot is
\* delivered, the shared stream stays live and every derived computation
\* stays subscribed.
C13_FaultBecomesEmptySnapshot ==
  [][faults' > faults =>
       /\ \E s \in Subs : /\ Len(got'[s]) = Len(got[s]) + 1
                           /\ got'[s][Len(got'[s])].kind = "empty"
       /\ stream' = "live"
       /\ subState' = subState]_vars

\* C14: a message that is not an array is discarded: no Snapshot is
\* delivered, nothing is published on the status channel, the retry policy
\* counts no failure and schedules nothing, and the stream, its subscribers
\* and the sockets stay as they are.
C14_NonArrayDiscarded ==
  [][(lastMsg' = "nonarray" /\ msgs' = msgs + 1) =>
       /\ got' = got
       /\ status' = status /\ statusLog' = statusLog
       /\ consec' = consec /\ errIdx' = errIdx
       /\ retryPending' = retryPending /\ retryLeft' = retryLeft
       /\ stream' = stream /\ subState' = subState /\ socks' = socks]_vars

C14_Witness ==
  /\ msgs = 2
  /\ lastMsg = "array"
  /\ stream = "live"
  /\ \A s \in Subs : got[s] = <<DataSnapshot(2)>>

\* C15: an array message with a malformed element is discarded: 'error' is
\* not published and the shared stream does not end.
C15_MalformedDiscarded ==
  [][(lastMsg' = "badarray" /\ msgs' = msgs + 1) =>
       status' = status /\ stream' = stream /\ subState' = subState]_vars

StrippedSymbols == {<<"BTC">>, <<"ETH">>, <<"SOL">>, <<"ADA">>}

\* C16: in the Snapshot the normalizer makes from an array, every record's
\* symbol is BTC, ETH, SOL or ADA, the records are the allow-listed items of
\* the array in their arrival order, and an array without an allow-listed
\* item gives a Snapshot with an empty record list.
C16_AllowListedInOrder ==
  normDone =>
    LET kept == {i \in DOMAIN raw : raw[i].s \in Tickers}
    IN  /\ \A i \in DOMAIN cryptos : cryptos[i].symbol \in StrippedSymbols
        /\ Len(cryptos) = Cardinality(kept)
        /\ \E f \in [DOMAIN cryptos -> kept] :
              /\ \A i, j \in DOMAIN cryptos : i < j => f[i] < f[j]
              /\ \A i \in DOMAIN cryptos :
                    /\ cryptos[i].symbol = <<raw[f[i]].s[1]>>
                    /\ cryptos[i].price = ParseFloat(raw[f[i]].c)
        /\ kept = {} => cryptos = <<>>

C16_Witness ==
  /\ normDone
  /\ Len(raw) = 3
  /\ raw[1].s = <<"ETH", "USDT">> /\ raw[1].c = "2"
  /\ raw[2].s = <<"DOGE", "USDT">>
  /\ raw[3].s = <<"BTC", "USDT">> /\ raw[3].c = "1"
  /\ Len(cryptos) = 2
  /\ cryptos[1].symbol = <<"ETH">> /\ cryptos[1].price = 2
  /\ cryptos[2].symbol = <<"BTC">> /\ cryptos[2].price = 1

\* The prices observed for a symbol in a window, over all its Snapshots in
\* arrival order.
C17_Observations(buf, sym) ==
  LET recs == Flatten([i \in DOMAIN buf |-> buf[i].elems])
      mine == SelectSeq(recs, LAMBDA r : r.symbol = sym)
  IN  [i \in DOMAIN mine |-> mine[i].price]

C17_Qualifies(obs) ==
  Len(obs) >= 2 /\ Abs(obs[Len(obs)] - obs[1]) * 100 >= obs[1]

\* C17: when a window closes, every symbol with at least 2 observations in
\* it whose change from the first to the last is at least 1% gets exactly one
\* PriceAlert, carrying that change and isUp = (change > 0).
C17_WindowAlerts ==
  [][WindowTick =>
       \A sym \in Symbols :
         LET obs == C17_Observations(buffer, sym)
         IN  C17_Qualifies(obs) =>
               /\ priceOut' # <<>>
               /\ \E i \in DOMAIN priceOut'[1] :
                     /\ priceOut'[1][i] =
                          [symbol |-> <<sym>>,
                           pctChange |-> RoundDiv((obs[Len(obs)] - obs[1]) * 10000, obs[1]),
                           isUp |-> obs[Len(obs)] > obs[1]]
                     /\ \A j \in DOMAIN priceOut'[1] :
                           priceOut'[1][j].symbol = <<sym>> => j = i]_allVars

\* C18: a window in which no symbol qualifies makes the price detector emit
\* nothing, and nothing is emitted on the alert channel.
C18_QuietWindowSilent ==
  [][(WindowTick /\ \A sym \in Symbols : ~C17_Qualifies(C17_Observations(buffer, sym)))
       => priceOut' = <<>> /\ alertOut' = <<>>]_allVars

\* C19: the volume check runs on a fixed cadence whatever the message rate:
\* a Snapshot that arrived is followed by a check within 10 time units, also
\* when further Snapshots arrive in between.
C19_CheckEveryPeriod == waiting <= DebouncePeriod

\* The alert C20 asks for, for one record of the Snapshot being checked, given
\* the volumes recorded so far.
C20_Expected(lv, current) ==
  IF lv[current.symbol] > 0 /\ (current.volume - lv[current.symbol]) * 5 > lv[current.symbol]
    THEN <<[symbol |-> current.symbol,
            volumeIncrease |->
              RoundDiv((current.volume - lv[current.symbol]) * 100, lv[current.symbol])]>>
    ELSE <<>>

\* C20: at each volume check an alert is emitted for a symbol of the checked
\* Snapshot exactly if a volume was recorded for it before and the increase
\* is above 20%, and it carries the increase in whole percent.
C20_VolumeAlerts ==
  [][VolCheck =>
       LET expected == Flatten([i \in DOMAIN held[1] |-> C20_Expected(lastVol, held[1][i])])
       IN  volOut' = IF expected = <<>> THEN <<>> ELSE <<expected>>]_allVars

\* C21: the rolling volume state holds, for every symbol seen in a checked
\* Snapshot so far, its volume in the latest checked Snapshot that carried
\* it, also when later checked Snapshots did not carry the symbol.
C21_RollingStateKeepsAll ==
  \A sym \in Symbols :
    lastVol[sym] > 0 =>
      /\ prev # <<>>
      /\ Find(prev[1], sym) # <<>>
      /\ Find(prev[1], sym)[1].volume = lastVol[sym]

\* C22: after every batch the retained list is the previous list with the
\* batch's entries put in front, cut to 5 entries; it never has more than 5
\* and is ordered newest first.
C22_NewestFiveFirst ==
  [][alertOut' # <<>> =>
       LET new == IF priceOut' # <<>> THEN priceOut'[1] ELSE volOut'[1]
           n == Len(new)
       IN  /\ Len(allAlerts') <= AlertCap
           /\ Len(allAlerts') = IF n + Len(allAlerts) < AlertCap
                                  THEN n + Len(allAlerts) ELSE AlertCap
           /\ \A i \in DOMAIN allAlerts' :
                 IF i <= n THEN allAlerts'[i].of = new[i]
                           ELSE allAlerts'[i] = allAlerts[i - n]
           /\ \A i, j \in DOMAIN allAlerts' :
                 i < j => allAlerts'[i].of.timestamp >= allAlerts'[j].of.timestamp]_allVars

\* Six single alerts came in one after the other: the list holds the last
\* five, the most recent first.
C22_Witness ==
  /\ Len(allAlerts) = AlertCap
  /\ \A i \in DOMAIN allAlerts : allAlerts[i].of.timestamp = AlertCap + 2 - i
  /\ allAlerts[1].type = "volume"
  /\ allAlerts[2].type = "price"

\* C23: a sample tick emits the most recent Snapshot if one arrived since
\* the previous tick and nothing otherwise; a step that is not a sample tick
\* emits nothing; no Snapshot is emitted twice.
C23_SampleOncePerTick ==
  [][/\ SampleTick =>
          uiOut' = IF sinceTick = <<>> THEN <<>> ELSE <<sinceTick[Len(sinceTick)]>>
     /\ ~SampleTick => uiOut' = <<>>
     /\ \A i, j \in DOMAIN shown' : i # j => shown'[i] # shown'[j]]_allVars

C23_Witness ==
  /\ shown = <<DataSnapshot(2), DataSnapshot(3)>>
  /\ arrived = 3
  /\ uiOut = <<>>
  /\ sinceTick = <<>>
  /\ sampleLeft = 0

\* C24: a refresh() call changes nothing: the connection, the published
\* state, the Snapshots delivered, the detectors' window and rolling state,
\* the throttler and the alert list stay as they are, and no channel emits.
C24_RefreshNoEffect ==
  [][refreshes' # refreshes =>
       /\ UNCHANGED <<vars, normVars>>
       /\ UNCHANGED <<buffer, allAlerts, held, dbLeft, prev, lastVol, waiting>>
       /\ UNCHANGED <<hasValue, lastValue, sampleLeft, sinceTick, shown, arrived>>
       /\ priceOut' = <<>> /\ alertOut' = <<>> /\ volOut' = <<>> /\ uiOut' = <<>>]_allVars

C24_Witness ==
  /\ refreshes = 1
  /\ LiveCount = 1
  /\ status = "connected"
  /\ stream = "live"
  /\ \A s \in Subs : Len(got[s]) = 1
  /\ reconnects = 0

\* C25: every record's volumeScore is an integer from 1 to 10, for every
\* volume >= 0, the volumes 0 and 1 among them.
C25_ScoreInRange ==
  normDone =>
    \A i \in DOMAIN cryptos :
      \E k \in 1..10 : cryptos[i].volumeScore = Num(k)

\* C26: a reconnect() call before close() leaves 'connecting' as the last
\* published state, and the close notification of a connection that was torn
\* down, arriving after a reconnect(), does not publish 'disconnected'.
C26_ConnectingKept ==
  [][/\ (ManualReconnectStep /\ ~closedSig) => status' = "connecting"
     /\ ( /\ reconnects > 0
          /\ ~closedSig
          /\ Len(socks') < Len(socks)
          /\ LiveCount' = LiveCount ) => status' = status]_allVars

\* C27: close() turns no pending data into output: the step in which data$
\* completes emits no volume alert for a Snapshot held by the 10-unit wait,
\* no price alerts for an unfinished window, and nothing on the alert channel.
C27_CloseEmitsNothing ==
  [][(VolComplete \/ PriceComplete) =>
       volOut' = <<>> /\ priceOut' = <<>> /\ alertOut' = <<>>]_allVars
====
